---- MODULE Spec2Model ----
(***************************************************************************)
(* A model of adventurelib's command interpreter (src/adventurelib.py):    *)
(* the pattern compiler (Pattern.__init__), the context resolver           *)
(* (set_context, Pattern.is_active), the word allocator                    *)
(* (Pattern.word_combinations), the matcher (Pattern.match), the registry  *)
(* (_register, commands) and the interpreter loop (start,                  *)
(* _handle_command).                                                       *)
(*                                                                         *)
(* A Python str is a sequence of one-character strings; a list or a tuple  *)
(* is a sequence; a dict is a function from its keys to its values; None   *)
(* is the value None below.                                                *)
(***************************************************************************)
EXTENDS Integers, Sequences, FiniteSets, TLC

VARIABLES
    current_context,   \* the module global current_context
    commands,          \* the module global commands: a list of (pattern, func, kwargs)
    pc,                \* where the program is: "setup", "loop" (inside start), "exited"
    depth,             \* how many calls of start() are running their loop
    starts,            \* how many times start(help=True) has been called
    registered,        \* history: the entries _register has appended, in order
    ctx_arg,           \* history: the argument of the last set_context call
    ret,               \* history: the last call observed, its arguments and what it did
    pat,               \* the Pattern object under test (SpecMatch, SpecContext)
    wc_have,           \* word_combinations generator (SpecWC): argument have
    wc_placeholders,   \* argument placeholders
    wc_out,            \* the tuples yielded so far
    wc_done            \* whether the generator has returned

vars == <<current_context, commands, pc, depth, starts, registered, ctx_arg, ret, pat,
          wc_have, wc_placeholders, wc_out, wc_done>>

(***************************************************************************)
(* Python values                                                           *)
(***************************************************************************)

\* None: a one-element sequence that is no str (its element is not a character).
None == <<"<None>">>

\* The empty dict.
EmptyDict == <<>>

\* The characters of a str are the code points below 256 (the alphabet of a
\* TLA+ string); the tables below are those of str.lower(), str.isupper(),
\* str.islower(), str.isalpha() and str.isspace() on them.

\* The lowercase of each uppercase letter, in the order of UpperAlpha.
LowerAlpha == <<"a","b","c","d","e","f","g","h","i","j","k","l","m",
                "n","o","p","q","r","s","t","u","v","w","x","y","z",
                "à","á","â","ã","ä","å","æ","ç","è","é","ê","ë","ì",
                "í","î","ï","ð","ñ","ò","ó","ô","õ","ö","ø","ù","ú",
                "û","ü","ý","þ">>

\* The uppercase letters: A-Z and the Latin-1 capitals.
UpperAlpha == <<"A","B","C","D","E","F","G","H","I","J","K","L","M",
                "N","O","P","Q","R","S","T","U","V","W","X","Y","Z",
                "À","Á","Â","Ã","Ä","Å","Æ","Ç","È","É","Ê","Ë","Ì",
                "Í","Î","Ï","Ð","Ñ","Ò","Ó","Ô","Õ","Ö","Ø","Ù","Ú",
                "Û","Ü","Ý","Þ">>

\* The characters c with c.islower(): the lowercase of the uppercase letters
\* and the lowercase letters that are the lowercase of none.
LowerLetters ==
    {LowerAlpha[i] : i \in 1..Len(LowerAlpha)} \cup {"ª","µ","º","ß","ÿ"}

\* The characters c with c.isupper().
UpperLetters == {UpperAlpha[i] : i \in 1..Len(UpperAlpha)}

\* The characters str.split() and str.strip() treat as whitespace: tab, line
\* feed, vertical tab, form feed, carriage return, the separators U+001C to
\* U+001F, space, next line (U+0085) and no-break space (U+00A0).
Whitespace == {"\t", "\n", "", "\f", "\r", "", "", "", "", " ", "", " "}

Min(a, b) == IF a < b THEN a ELSE b

\* s[:n] for n >= 0: a slice past the end stops at the end.
Take(s, n) == SubSeq(s, 1, Min(n, Len(s)))

\* s[n:] for n >= 0.
Drop(s, n) == SubSeq(s, Min(n, Len(s)) + 1, Len(s))

\* One character of str.lower().
lower_char(c) ==
    IF c \in UpperLetters
    THEN LowerAlpha[CHOOSE i \in 1..Len(UpperAlpha) : UpperAlpha[i] = c]
    ELSE c

\* str.lower()
lower(s) == [i \in 1..Len(s) |-> lower_char(s[i])]

\* str.isalpha(): non-empty, letters only.
isalpha(s) == Len(s) > 0 /\ \A i \in 1..Len(s) : s[i] \in LowerLetters \cup UpperLetters

\* str.isupper(): no lowercase letter and at least one uppercase letter.
isupper(s) ==
    /\ \A i \in 1..Len(s) : s[i] \notin LowerLetters
    /\ \E i \in 1..Len(s) : s[i] \in UpperLetters

\* str.islower(): no uppercase letter and at least one lowercase letter.
islower(s) ==
    /\ \A i \in 1..Len(s) : s[i] \notin UpperLetters
    /\ \E i \in 1..Len(s) : s[i] \in LowerLetters

RECURSIVE split_from(_, _, _)
\* The words of s from position i on, cur being the word read so far.
split_from(s, i, cur) ==
    IF i > Len(s)
    THEN IF cur = <<>> THEN <<>> ELSE <<cur>>
    ELSE IF s[i] \in Whitespace
         THEN IF cur = <<>>
              THEN split_from(s, i + 1, <<>>)
              ELSE <<cur>> \o split_from(s, i + 1, <<>>)
         ELSE split_from(s, i + 1, Append(cur, s[i]))

\* str.split(): the maximal runs of non-whitespace characters, in order.
split(s) == split_from(s, 1, <<>>)

RECURSIVE lstrip(_)
lstrip(s) == IF s # <<>> /\ Head(s) \in Whitespace THEN lstrip(Tail(s)) ELSE s

RECURSIVE rstrip(_)
rstrip(s) ==
    IF s # <<>> /\ s[Len(s)] \in Whitespace THEN rstrip(SubSeq(s, 1, Len(s) - 1)) ELSE s

\* str.strip()
strip(s) == rstrip(lstrip(s))

RECURSIVE join(_)
\* ' '.join(ws)
join(ws) ==
    IF ws = <<>> THEN <<>>
    ELSE IF Len(ws) = 1 THEN ws[1]
    ELSE ws[1] \o <<" ">> \o join(Tail(ws))

\* d[k] = v on a dict.
DictSet(d, k, v) == [x \in (DOMAIN d) \cup {k} |-> IF x = k THEN v ELSE d[x]]

\* d.update(e) on a copy of d: the keys of e win.
DictUpdate(d, e) ==
    [x \in (DOMAIN d) \cup (DOMAIN e) |-> IF x \in DOMAIN e THEN e[x] ELSE d[x]]

(***************************************************************************)
(* Pattern.__init__                                                        *)
(***************************************************************************)

\* Placeholder(name): a pattern token that captures words.
Placeholder(name) == [placeholder |-> TRUE, name |-> name]

\* A literal pattern token: the word itself.
Literal(w) == [placeholder |-> FALSE, name |-> w]

\* Whether Pattern(pattern) raises InvalidCommand: some word is not made of
\* letters only, or is neither all uppercase nor all lowercase.
PatternRaises(pattern) ==
    LET words == split(pattern)
    IN  \E i \in 1..Len(words) :
            ~isalpha(words[i]) \/ (~isupper(words[i]) /\ ~islower(words[i]))

\* The list `match` of Pattern.__init__: a Placeholder for an uppercase word,
\* the word itself for a lowercase one.
CompiledTokens(pattern) ==
    LET words == split(pattern)
    IN  [i \in 1..Len(words) |->
            IF isupper(words[i]) THEN Placeholder(lower(words[i])) ELSE Literal(words[i])]

RECURSIVE ArgNamesOf(_)
\* The names of the placeholders among tokens, in order.
ArgNamesOf(tokens) ==
    IF tokens = <<>> THEN <<>>
    ELSE IF Head(tokens).placeholder
         THEN <<Head(tokens).name>> \o ArgNamesOf(Tail(tokens))
         ELSE ArgNamesOf(Tail(tokens))

RECURSIVE PrefixOf(_)
\* The leading literal words of tokens, up to the first Placeholder.
PrefixOf(tokens) ==
    IF tokens = <<>> \/ Head(tokens).placeholder THEN <<>>
    ELSE <<Head(tokens).name>> \o PrefixOf(Tail(tokens))

\* Pattern(pattern, context), for a template that does not raise.
Pattern(pattern, context) ==
    LET match    == CompiledTokens(pattern)
        argnames == ArgNamesOf(match)
        prefix   == PrefixOf(match)
        rest     == Drop(match, Len(prefix))
    IN  [orig_pattern    |-> pattern,
         pattern_context |-> context,
         placeholders    |-> Len(argnames),
         argnames        |-> argnames,
         prefix          |-> prefix,
         pattern         |-> rest,
         fixed           |-> Len(rest) - Len(argnames)]

(***************************************************************************)
(* Pattern.word_combinations                                               *)
(***************************************************************************)

RECURSIVE word_combinations(_, _)
RECURSIVE word_combinations_loop(_, _, _)

\* (1,) * n
Ones(n) == [i \in 1..n |-> 1]

\* The tuples the while loop yields from `take` down to 1.
word_combinations_loop(have, placeholders, take) ==
    IF take > 0
    THEN LET remain == have - take
             combos == IF have >= placeholders - 1
                       THEN word_combinations(remain, placeholders - 1)
                       ELSE <<>>
         IN  [i \in 1..Len(combos) |-> <<take>> \o combos[i]]
             \o word_combinations_loop(have, placeholders, take - 1)
    ELSE <<>>

\* word_combinations with the loop started one below the greedy take.
word_combinations_short(have, placeholders) ==
    IF have < placeholders THEN <<>>
    ELSE IF have = placeholders THEN <<Ones(placeholders)>>
    ELSE IF placeholders = 1 THEN << <<have>> >>
    ELSE word_combinations_loop(have, placeholders, have - placeholders)

\* The tuples word_combinations(have, placeholders) yields, in order.
word_combinations(have, placeholders) ==
    IF have < placeholders THEN <<>>
    ELSE IF have = placeholders THEN <<Ones(placeholders)>>
    ELSE IF placeholders = 1 THEN << <<have>> >>
    ELSE word_combinations_loop(have, placeholders, have - (placeholders - 1))

(***************************************************************************)
(* set_context and Pattern.is_active                                       *)
(***************************************************************************)

S_default == <<"d","e","f","a","u","l","t">>

\* The value set_context(new_context) stores in current_context.
QualifiedContext(new_context) ==
    IF new_context # S_default THEN S_default \o <<".">> \o new_context ELSE new_context

\* What is_active does: it raises, or it returns a bool.
ActiveRaise(exception) == [raised |-> exception, value |-> FALSE]

ActiveReturn(value) == [raised |-> "", value |-> value]

\* is_active with the descendant test made without the dot separator.
is_active_no_dot(self) ==
    IF current_context = None
    THEN ActiveRaise("InvalidContext")
    ELSE LET context == self.pattern_context
         IN  IF context # None
             THEN LET qualified == IF context # S_default
                                   THEN S_default \o <<".">> \o context
                                   ELSE context
                  IN  IF qualified = current_context THEN ActiveReturn(TRUE)
                      ELSE ActiveReturn(qualified = Take(current_context, Len(qualified)))
             ELSE ActiveReturn(FALSE)

\* self.is_active(): InvalidContext is raised when current_context is None
\* (set_context never stores None: the global has to be assigned directly).
is_active(self) ==
    IF current_context = None
    THEN ActiveRaise("InvalidContext")
    ELSE LET context == self.pattern_context
         IN  IF context # None
             THEN LET qualified    == IF context # S_default
                                      THEN S_default \o <<".">> \o context
                                      ELSE context
                      uppercontext == qualified \o <<".">>
                      context_len  == Len(qualified) + 1
                  IN  IF qualified = current_context THEN ActiveReturn(TRUE)
                      ELSE ActiveReturn(uppercontext = Take(current_context, context_len))
             ELSE ActiveReturn(FALSE)

(***************************************************************************)
(* Pattern.match                                                           *)
(***************************************************************************)

\* What match does: it returns None or a dict of captured groups, or the
\* exception of is_active propagates.
ReturnNone == [raised |-> "", is_none |-> TRUE, groups |-> EmptyDict]

ReturnDict(d) == [raised |-> "", is_none |-> FALSE, groups |-> d]

MatchRaise(exception) == [raised |-> exception, is_none |-> TRUE, groups |-> EmptyDict]

RECURSIVE walk(_, _, _, _, _, _, _)
\* walk with a differing literal skipped over instead of ending the pass.
walk_ignoring_literals(tokens, j, combo, t, inp, p, matches) ==
    IF j > Len(tokens)
    THEN [outcome |-> "else", matches |-> matches]
    ELSE IF tokens[j].placeholder
         THEN IF t + 1 > Len(combo)
              THEN [outcome |-> "StopIteration", matches |-> matches]
              ELSE LET count == combo[t + 1]
                   IN  IF p + count > Len(inp)
                       THEN [outcome |-> "StopIteration", matches |-> matches]
                       ELSE walk(tokens, j + 1, combo, t + 1, inp, p + count,
                                 DictSet(matches, tokens[j].name,
                                         SubSeq(inp, p + 1, p + count)))
         ELSE IF p + 1 > Len(inp)
              THEN [outcome |-> "StopIteration", matches |-> matches]
              ELSE walk(tokens, j + 1, combo, t, inp, p + 1, matches)

\* One pass of the loop `for cword in self.pattern` for one combo, from token
\* j on: t is how many entries of `take` and p how many words of `inp` have
\* been consumed.  The pass ends by completing ("else": the dict is returned),
\* by `break` (a literal differs) or by StopIteration (next() on an exhausted
\* iterator).
walk(tokens, j, combo, t, inp, p, matches) ==
    IF j > Len(tokens)
    THEN [outcome |-> "else", matches |-> matches]
    ELSE IF tokens[j].placeholder
         THEN IF t + 1 > Len(combo)
              THEN [outcome |-> "StopIteration", matches |-> matches]
              ELSE LET count == combo[t + 1]
                   IN  IF p + count > Len(inp)
                       THEN [outcome |-> "StopIteration", matches |-> matches]
                       ELSE walk(tokens, j + 1, combo, t + 1, inp, p + count,
                                 DictSet(matches, tokens[j].name,
                                         SubSeq(inp, p + 1, p + count)))
         ELSE IF p + 1 > Len(inp)
              THEN [outcome |-> "StopIteration", matches |-> matches]
              ELSE IF tokens[j].name # inp[p + 1]
                   THEN [outcome |-> "break", matches |-> matches]
                   ELSE walk(tokens, j + 1, combo, t, inp, p + 1, matches)

\* JoinGroups keeping only the first word of each group.
JoinGroupsFirstWord(matches) == [k \in DOMAIN matches |-> matches[k][1]]

\* {k: ' '.join(v) for k, v in matches.items()}
JoinGroups(matches) == [k \in DOMAIN matches |-> join(matches[k])]

RECURSIVE match_combos(_, _, _, _, _)
\* The loop `for combo in self.word_combinations(...)` from the k-th combo on.
\* tried counts the combos walked, stops the passes ended by StopIteration.
match_combos(self, input_words, combos, k, stops) ==
    IF k > Len(combos)
    THEN [value |-> ReturnNone, tried |-> Len(combos), stops |-> stops]
    ELSE LET w == walk(self.pattern, 1, combos[k], 0, input_words, 0, EmptyDict)
         IN  IF w.outcome = "else"
             THEN [value |-> ReturnDict(JoinGroups(w.matches)), tried |-> k,
                   stops |-> stops]
             ELSE match_combos(self, input_words, combos, k + 1,
                               IF w.outcome = "StopIteration" THEN stops + 1 ELSE stops)

\* match_trace with the length test rejecting an input of exactly as many
\* words as the pattern has argument names.
match_trace_strict(self, input_words) ==
    IF is_active(self).raised # ""
    THEN [value |-> MatchRaise(is_active(self).raised), tried |-> 0, stops |-> 0]
    ELSE IF ~is_active(self).value
    THEN [value |-> ReturnNone, tried |-> 0, stops |-> 0]
    ELSE IF Len(input_words) <= Len(self.argnames)
    THEN [value |-> ReturnNone, tried |-> 0, stops |-> 0]
    ELSE IF Take(input_words, Len(self.prefix)) # self.prefix
    THEN [value |-> ReturnNone, tried |-> 0, stops |-> 0]
    ELSE LET rest == Drop(input_words, Len(self.prefix))
         IN  IF rest = <<>> /\ self.pattern = <<>>
             THEN [value |-> ReturnDict(EmptyDict), tried |-> 0, stops |-> 0]
             ELSE IF (rest # <<>>) # (self.pattern # <<>>)
             THEN [value |-> ReturnNone, tried |-> 0, stops |-> 0]
             ELSE LET have == Len(rest) - self.fixed
                  IN  match_combos(self, rest,
                                   word_combinations(have, self.placeholders), 1, 0)

\* self.match(input_words) with what it did on the way: the value returned,
\* the number of allocation tuples walked and the number of StopIterations.
match_trace(self, input_words) ==
    IF is_active(self).raised # ""
    THEN [value |-> MatchRaise(is_active(self).raised), tried |-> 0, stops |-> 0]
    ELSE IF ~is_active(self).value
    THEN [value |-> ReturnNone, tried |-> 0, stops |-> 0]
    ELSE IF Len(input_words) < Len(self.argnames)
    THEN [value |-> ReturnNone, tried |-> 0, stops |-> 0]
    ELSE IF Take(input_words, Len(self.prefix)) # self.prefix
    THEN [value |-> ReturnNone, tried |-> 0, stops |-> 0]
    ELSE LET rest == Drop(input_words, Len(self.prefix))
         IN  IF rest = <<>> /\ self.pattern = <<>>
             THEN [value |-> ReturnDict(EmptyDict), tried |-> 0, stops |-> 0]
             ELSE IF (rest # <<>>) # (self.pattern # <<>>)
             THEN [value |-> ReturnNone, tried |-> 0, stops |-> 0]
             ELSE LET have == Len(rest) - self.fixed
                  IN  match_combos(self, rest,
                                   word_combinations(have, self.placeholders), 1, 0)

\* self.match(input_words)
match(self, input_words) == match_trace(self, input_words).value

(***************************************************************************)
(* Values shared by the specifications                                     *)
(***************************************************************************)

\* No call observed yet.
NoCall == [op |-> "none"]

\* No Pattern object under test.
NoPattern == [orig_pattern |-> None]

\* All sequences over S of length at most n.
RECURSIVE SeqsUpTo(_, _)
SeqsUpTo(S, n) ==
    IF n = 0 THEN {<<>>}
    ELSE LET shorter == SeqsUpTo(S, n - 1)
         IN  shorter \cup {Append(s, x) : s \in {q \in shorter : Len(q) = n - 1}, x \in S}

\* set_context(new_context)
SetContext(new_context) ==
    /\ pc # "exited"
    /\ current_context' = QualifiedContext(new_context)
    /\ ctx_arg' = new_context
    /\ ret' = [op |-> "set_context", new_context |-> new_context]
    /\ UNCHANGED <<commands, pc, depth, starts, registered, pat,
                   wc_have, wc_placeholders, wc_out, wc_done>>

(***************************************************************************)
(* SpecWC: the generator Pattern.word_combinations(have, placeholders)     *)
(***************************************************************************)

MaxHave == 6

MaxPlaceholders == 4

InitWC ==
    /\ wc_have \in 0..MaxHave
    /\ wc_placeholders \in 1..MaxPlaceholders
    /\ wc_out = <<>>
    /\ wc_done = FALSE
    /\ current_context = S_default
    /\ commands = <<>>
    /\ pc = "setup"
    /\ depth = 0
    /\ starts = 0
    /\ registered = <<>>
    /\ ctx_arg = None
    /\ ret = NoCall
    /\ pat = NoPattern

\* The generator yields its next tuple.
WcYield ==
    /\ ~wc_done
    /\ Len(wc_out) < Len(word_combinations(wc_have, wc_placeholders))
    /\ wc_out' = Append(wc_out, word_combinations(wc_have, wc_placeholders)[Len(wc_out) + 1])
    /\ UNCHANGED <<wc_have, wc_placeholders, wc_done, current_context, commands, pc, depth,
                   starts, registered, ctx_arg, ret, pat>>

\* The generator is exhausted and returns.
WcReturn ==
    /\ ~wc_done
    /\ Len(wc_out) = Len(word_combinations(wc_have, wc_placeholders))
    /\ wc_done' = TRUE
    /\ UNCHANGED <<wc_have, wc_placeholders, wc_out, current_context, commands, pc, depth,
                   starts, registered, ctx_arg, ret, pat>>

NextWC == WcYield \/ WcReturn

SpecWC == InitWC /\ [][NextWC]_vars

RECURSIVE Binomial(_, _)
\* C(n, k) by Pascal's rule; 0 outside 0 <= k <= n.
Binomial(n, k) ==
    IF k < 0 \/ n < 0 \/ k > n THEN 0
    ELSE IF k = 0 \/ k = n THEN 1
    ELSE Binomial(n - 1, k - 1) + Binomial(n - 1, k)

RECURSIVE SumSeq(_)
SumSeq(s) == IF s = <<>> THEN 0 ELSE Head(s) + SumSeq(Tail(s))

\* C1: every tuple word_combinations(have, placeholders) yields has length
\* `placeholders`, entries >= 1 and sum `have`; no tuple is yielded twice; when
\* have >= placeholders the first tuple starts with have - placeholders + 1;
\* and once the generator has returned it has yielded exactly
\* C(have-1, placeholders-1) tuples (none when have < placeholders).
C1_WordCombinations ==
    /\ \A i \in 1..Len(wc_out) :
          /\ Len(wc_out[i]) = wc_placeholders
          /\ \A j \in 1..Len(wc_out[i]) : wc_out[i][j] >= 1
          /\ SumSeq(wc_out[i]) = wc_have
    /\ \A i, j \in 1..Len(wc_out) : i # j => wc_out[i] # wc_out[j]
    /\ Len(wc_out) >= 1 => wc_out[1][1] = wc_have - wc_placeholders + 1
    /\ wc_have < wc_placeholders => wc_out = <<>>
    /\ wc_done => Len(wc_out) = Binomial(wc_have - 1, wc_placeholders - 1)
    /\ (wc_done /\ wc_have >= wc_placeholders) => Len(wc_out) >= 1

\* The generator has returned after yielding several tuples of several entries.
C1_Witness ==
    /\ wc_done
    /\ wc_have = 5
    /\ wc_placeholders = 3
    /\ Len(wc_out) = 6
    /\ wc_out[1] = <<3, 1, 1>>

(***************************************************************************)
(* Strings used as inputs                                                  *)
(***************************************************************************)

S_shop == <<"s","h","o","p">>

S_shopping == <<"s","h","o","p","p","i","n","g">>

S_register == <<"r","e","g","i","s","t","e","r">>

S_shop_register == <<"s","h","o","p",".","r","e","g","i","s","t","e","r">>

S_look == <<"l","o","o","k">>

S_put_item_in_container == <<"p","u","t"," ","I","T","E","M"," ","i","n"," ","C","O","N","T","A","I","N","E","R">>

W_put_example == <<<<"p","u","t">>, <<"a">>, <<"r","u","s","t","y">>, <<"k","e","y">>, <<"i","n">>, <<"t","h","e">>, <<"o","l","d">>, <<"c","h","e","s","t">>>>

S_item == <<"i","t","e","m">>

S_container == <<"c","o","n","t","a","i","n","e","r">>

S_a_rusty_key == <<"a"," ","r","u","s","t","y"," ","k","e","y">>

S_the_old_chest == <<"t","h","e"," ","o","l","d"," ","c","h","e","s","t">>

(***************************************************************************)
(* SpecContext: set_context calls and is_active() on one Pattern           *)
(***************************************************************************)

MaxDepth == 2

\* The segments context paths are made of.
Segments == {S_shop, S_shopping, S_register}

RECURSIVE JoinDots(_)
\* '.'.join(segs)
JoinDots(segs) ==
    IF Len(segs) = 1 THEN segs[1] ELSE segs[1] \o <<".">> \o JoinDots(Tail(segs))

\* The context paths passed to set_context and to Pattern(...).
ContextPaths ==
    {JoinDots(segs) : segs \in SeqsUpTo(Segments, MaxDepth) \ {<<>>}} \cup {S_default}

InitContext ==
    /\ pat \in {Pattern(S_look, c) : c \in ContextPaths \cup {None}}
    /\ current_context = S_default
    /\ ctx_arg = None
    /\ ret = NoCall
    /\ commands = <<>>
    /\ pc = "setup"
    /\ depth = 0
    /\ starts = 0
    /\ registered = <<>>
    /\ wc_have = 0
    /\ wc_placeholders = 1
    /\ wc_out = <<>>
    /\ wc_done = FALSE

\* pat.is_active() is called and its value observed.
IsActiveCall ==
    /\ ret' = [op |-> "is_active", raised |-> is_active(pat).raised,
               value |-> is_active(pat).value]
    /\ UNCHANGED <<current_context, commands, pc, depth, starts, registered, ctx_arg, pat,
                   wc_have, wc_placeholders, wc_out, wc_done>>

NextContext ==
    \/ \E c \in ContextPaths : SetContext(c)
    \/ IsActiveCall

SpecContext == InitContext /\ [][NextContext]_vars

\* Whether s starts with t.
StartsWith(s, t) == Len(s) >= Len(t) /\ \A i \in 1..Len(t) : s[i] = t[i]

\* A context path qualified under the root: 'default' stays, anything else
\* goes under 'default.'.
UnderRoot(c) == IF c = S_default THEN S_default ELSE S_default \o <<".">> \o c

\* C3: after set_context calls is_active() raises nothing, and it is true
\* iff the pattern has a context and the current context equals that context
\* qualified under the root or starts with the qualified context followed by
\* a dot.  A pattern declared with 'shop' is
\* active after set_context('shop') and set_context('shop.register'),
\* inactive after set_context('default'), before any set_context call, and
\* after set_context('shopping'); the current context is always the last
\* set_context argument qualified under the root.
C3_IsActive ==
    /\ current_context = (IF ctx_arg = None THEN S_default ELSE UnderRoot(ctx_arg))
    /\ ret.op = "is_active" =>
          /\ ret.raised = ""
          /\ ret.value <=>
                /\ pat.pattern_context # None
                /\ \/ current_context = UnderRoot(pat.pattern_context)
                   \/ StartsWith(current_context,
                                 UnderRoot(pat.pattern_context) \o <<".">>)
          /\ pat.pattern_context = S_shop =>
                /\ ctx_arg = S_shop => ret.value
                /\ ctx_arg = S_shop_register => ret.value
                /\ ctx_arg = S_default => ~ret.value
                /\ ctx_arg = None => ~ret.value
                /\ ctx_arg = S_shopping => ~ret.value

\* is_active() has returned True for a 'shop' pattern after
\* set_context('shop.register').
C3_Witness ==
    /\ ret.op = "is_active"
    /\ ret.value
    /\ pat.pattern_context = S_shop
    /\ ctx_arg = S_shop_register
    /\ current_context # UnderRoot(S_shop)

(***************************************************************************)
(* SpecMatch: match() on one Pattern, under set_context calls              *)
(***************************************************************************)

MaxTokens == 3

MaxWords == 4

\* The words templates are made of: a literal and two placeholders.
TemplateWords == {<<"a">>, <<"X">>, <<"Y">>}

\* The words input lines are made of: the literal and a word that is none.
InputVocabulary == {<<"a">>, <<"b">>}

\* The templates compiled: every sequence of at most MaxTokens template
\* words, joined by spaces, and 'put ITEM in CONTAINER'.
MatchTemplates ==
    {join(ws) : ws \in SeqsUpTo(TemplateWords, MaxTokens)}
        \cup {S_put_item_in_container}

\* The word lists matched: every list of at most MaxWords input words, and
\* put a rusty key in the old chest.
MatchInputs ==
    SeqsUpTo(InputVocabulary, MaxWords) \cup {W_put_example}

\* The contexts of SpecMatch.
MatchContexts == {S_default, S_shop}

InitMatch ==
    /\ pat \in {Pattern(t, c) : t \in {x \in MatchTemplates : ~PatternRaises(x)},
                                c \in MatchContexts}
    /\ current_context = S_default
    /\ ctx_arg = None
    /\ ret = NoCall
    /\ commands = <<>>
    /\ pc = "setup"
    /\ depth = 0
    /\ starts = 0
    /\ registered = <<>>
    /\ wc_have = 0
    /\ wc_placeholders = 1
    /\ wc_out = <<>>
    /\ wc_done = FALSE

\* pat.match(input_words) is called and what it did observed.
MatchCall(input_words) ==
    /\ \E r \in {match_trace(pat, input_words)} :
           ret' = [op          |-> "match",
                   input_words |-> input_words,
                   value       |-> r.value,
                   tried       |-> r.tried,
                   stops       |-> r.stops]
    /\ UNCHANGED <<current_context, commands, pc, depth, starts, registered, ctx_arg, pat,
                   wc_have, wc_placeholders, wc_out, wc_done>>

NextMatch ==
    \/ \E c \in MatchContexts : SetContext(c)
    \/ \E w \in MatchInputs : MatchCall(w)

SpecMatch == InitMatch /\ [][NextMatch]_vars

\* The input words left once the prefix is stripped.
RestOf(p, input_words) == Drop(input_words, Len(p.prefix))

\* The number of placeholders among the first j tokens.
Rank(tokens, j) == Cardinality({i \in 1..j : tokens[i].placeholder})

\* The number of words token j takes under the allocation tuple combo.
SizeAt(tokens, combo, j) == IF tokens[j].placeholder THEN combo[Rank(tokens, j)] ELSE 1

RECURSIVE StartAt(_, _, _)
\* The number of words the tokens before j take under combo.
StartAt(tokens, combo, j) ==
    IF j = 1 THEN 0
    ELSE StartAt(tokens, combo, j - 1) + SizeAt(tokens, combo, j - 1)

\* combo is consistent with the literals: each literal equals the input word
\* at its position.
Consistent(tokens, combo, rest) ==
    \A j \in 1..Len(tokens) :
        ~tokens[j].placeholder =>
            /\ StartAt(tokens, combo, j) + 1 <= Len(rest)
            /\ rest[StartAt(tokens, combo, j) + 1] = tokens[j].name

\* The capture of combo: each argument name with the words of the last
\* placeholder of that name, joined by spaces.
CaptureOf(tokens, combo, rest) ==
    LET names    == {tokens[j].name : j \in {i \in 1..Len(tokens) : tokens[i].placeholder}}
        lastOf(n) == CHOOSE j \in 1..Len(tokens) :
                        /\ tokens[j].placeholder /\ tokens[j].name = n
                        /\ \A i \in (j + 1)..Len(tokens) :
                              ~(tokens[i].placeholder /\ tokens[i].name = n)
    IN  [n \in names |->
            join(SubSeq(rest, StartAt(tokens, combo, lastOf(n)) + 1,
                        StartAt(tokens, combo, lastOf(n))
                            + SizeAt(tokens, combo, lastOf(n))))]

\* Whether tuple a is lexicographically greater than or equal to tuple b.
LexGE(a, b) ==
    \/ a = b
    \/ \E i \in 1..Len(a) : a[i] > b[i] /\ \A j \in 1..(i - 1) : a[j] = b[j]

\* The case C2 is about: an active pattern with a placeholder, and an input
\* that starts with the prefix.
C2_Case ==
    /\ ret.op = "match"
    /\ is_active(pat).value
    /\ pat.placeholders >= 1
    /\ Take(ret.input_words, Len(pat.prefix)) = pat.prefix

\* C2: for an active pattern with a placeholder and an input starting with
\* the prefix, match returns the capture of the first allocation tuple, in
\* the allocator's order, that is consistent with the literals (which is the
\* lexicographically greatest consistent tuple), it walks no tuple after that
\* one, and it returns None exactly when no tuple is consistent.  'put ITEM
\* in CONTAINER' on put a rusty key in the old chest gives item 'a rusty
\* key' and container 'the old chest'.
C2_FirstAllocation ==
    C2_Case =>
        LET rest   == RestOf(pat, ret.input_words)
            combos == word_combinations(Len(rest) - pat.fixed, pat.placeholders)
            good   == {k \in 1..Len(combos) : Consistent(pat.pattern, combos[k], rest)}
        IN  /\ IF good = {}
               THEN ret.value.is_none
               ELSE LET first == CHOOSE k \in good : \A m \in good : k <= m
                    IN  /\ ~ret.value.is_none
                        /\ ret.value.groups = CaptureOf(pat.pattern, combos[first], rest)
                        /\ ret.tried = first
                        /\ \A m \in good : LexGE(combos[first], combos[m])
            /\ (pat.orig_pattern = S_put_item_in_container
                    /\ ret.input_words = W_put_example) =>
                  /\ ~ret.value.is_none
                  /\ DOMAIN ret.value.groups = {S_item, S_container}
                  /\ ret.value.groups[S_item] = S_a_rusty_key
                  /\ ret.value.groups[S_container] = S_the_old_chest

\* match has returned the capture of the third tuple for the documented
\* example, the first two tuples being inconsistent with the literal 'in'.
C2_Witness ==
    /\ C2_Case
    /\ pat.orig_pattern = S_put_item_in_container
    /\ ret.input_words = W_put_example
    /\ ret.tried = 3
    /\ ret.value.groups[S_item] = S_a_rusty_key

\* Whether the argument names of p are pairwise different.
DistinctNames(p) ==
    \A i, j \in 1..Len(p.argnames) : i # j => p.argnames[i] # p.argnames[j]

RECURSIVE Flatten(_)
\* The concatenation of a list of lists.
Flatten(ls) == IF ls = <<>> THEN <<>> ELSE Head(ls) \o Flatten(Tail(ls))

\* The template written out with the captured groups: the prefix, then each
\* literal as itself and each placeholder as the words of its capture.
WriteOut(p, groups) ==
    p.prefix \o Flatten([j \in 1..Len(p.pattern) |->
                            IF p.pattern[j].placeholder
                            THEN split(groups[p.pattern[j].name])
                            ELSE <<p.pattern[j].name>>])

\* The case C8 is about: an active pattern, an input that starts with the
\* prefix and has exactly as many words left as the pattern has placeholders.
C8_Case ==
    /\ ret.op = "match"
    /\ is_active(pat).value
    /\ Take(ret.input_words, Len(pat.prefix)) = pat.prefix
    /\ Len(RestOf(pat, ret.input_words)) = pat.placeholders

\* C8 as claimed: with exactly k words left for k placeholders, match binds
\* the i-th placeholder to the i-th remaining word.
C8_Original ==
    C8_Case =>
        /\ ~ret.value.is_none
        /\ \A i \in 1..pat.placeholders :
              /\ pat.argnames[i] \in DOMAIN ret.value.groups
              /\ ret.value.groups[pat.argnames[i]] = RestOf(pat, ret.input_words)[i]

\* C8 as amended: with exactly k words left for k placeholders, a pattern
\* with no literal after its first placeholder (fixed = 0) matches and binds
\* each argument name to exactly one word, the word at the position of the
\* last placeholder of that name (the i-th word for the i-th placeholder when
\* the names are distinct); a pattern with a literal after its first
\* placeholder does not match.
C8_OneWordEach ==
    C8_Case =>
        IF pat.fixed = 0
        THEN /\ ~ret.value.is_none
             /\ DOMAIN ret.value.groups = {pat.argnames[i] : i \in 1..pat.placeholders}
             /\ \A i \in 1..pat.placeholders :
                   (\A j \in (i + 1)..pat.placeholders : pat.argnames[j] # pat.argnames[i])
                       => ret.value.groups[pat.argnames[i]]
                              = RestOf(pat, ret.input_words)[i]
             /\ DistinctNames(pat) => Cardinality(DOMAIN ret.value.groups) = pat.placeholders
        ELSE ret.value.is_none

\* match has bound two placeholders to one word each, after a prefix.
C8_Witness ==
    /\ C8_Case
    /\ pat.placeholders = 2
    /\ Len(pat.prefix) = 1
    /\ pat.fixed = 0
    /\ DistinctNames(pat)
    /\ ~ret.value.is_none
    /\ ret.value.groups[pat.argnames[1]] = <<"b">>
    /\ ret.value.groups[pat.argnames[2]] = <<"a">>

\* C10: when match returns a mapping for a pattern with distinct placeholder
\* names, no pass of the walk ran out of input words or allocation entries,
\* every placeholder has a capture, every capture is a non-empty run of
\* consecutive input words joined by spaces, and writing the template out with
\* the captures gives back the input word list.
C10_RoundTrip ==
    (ret.op = "match" /\ ~ret.value.is_none /\ DistinctNames(pat)) =>
        /\ ret.stops = 0
        /\ DOMAIN ret.value.groups = {pat.argnames[i] : i \in 1..pat.placeholders}
        /\ \A n \in DOMAIN ret.value.groups :
              /\ ret.value.groups[n] # <<>>
              /\ \E a, b \in 1..Len(ret.input_words) :
                    /\ a <= b
                    /\ ret.value.groups[n] = join(SubSeq(ret.input_words, a, b))
        /\ WriteOut(pat, ret.value.groups) = ret.input_words

\* match has returned a mapping with a capture of several words for a
\* pattern with a literal between two placeholders.
C10_Witness ==
    /\ ret.op = "match"
    /\ ~ret.value.is_none
    /\ DistinctNames(pat)
    /\ pat.placeholders = 2
    /\ pat.fixed = 1
    /\ ret.tried = 2
    /\ \E n \in DOMAIN ret.value.groups : Len(ret.value.groups[n]) = 3

(***************************************************************************)
(* The registry: commands, _register, start, _handle_command               *)
(***************************************************************************)

S_quit == <<"q","u","i","t">>

S_help == <<"h","e","l","p">>

S_take_item == <<"t","a","k","e"," ","I","T","E","M">>

S_take_item_item == <<"t","a","k","e"," ","I","T","E","M"," ","I","T","E","M">>

S_take_mixed == <<"t","a","k","e"," ","I","t","e","m">>

S_take_digit == <<"t","a","k","e"," ","1">>

S_cafe == <<"c","a","f","é">>

S_weapon == <<"w","e","a","p","o","n">>

S_sword == <<"s","w","o","r","d">>

S_status == <<"s","t","a","t","u","s">>

\* A function with its declared parameter names (inspect.signature).
Func(name, params) == [name |-> name, params |-> params]

\* sys.exit: its signature is (status=None, /).
F_exit == Func("sys.exit", {S_status})

\* adventurelib.help
F_help == Func("help", {})

\* The handlers games define.
F_look == Func("look", {})

F_take == Func("take", {S_item})

F_attack == Func("attack", {S_weapon})

F_strike == Func("strike", {S_item, S_weapon})

\* A (pattern, func, kwargs) tuple of commands.
Entry(pattern, func, kwargs) == [pattern |-> pattern, func |-> func, kwargs |-> kwargs]

\* The built-in quit command the module starts with.
QuitEntry == Entry(Pattern(S_quit, S_default), F_exit, EmptyDict)

\* The entry start() inserts for 'help'.
HelpEntry == Entry(Pattern(S_help, S_default), F_help, EmptyDict)

\* The entry start() inserts for '?': Pattern('help') with its prefix and its
\* orig_pattern overwritten.
QmarkEntry ==
    Entry([Pattern(S_help, S_default) EXCEPT !.prefix = << <<"?">> >>,
                                             !.orig_pattern = <<"?">>],
          F_help, EmptyDict)

\* set(pattern.argnames) | set(kwargs.keys())
when_argnames(pattern, kwargs) ==
    {pattern.argnames[i] : i \in 1..Len(pattern.argnames)} \cup DOMAIN kwargs

\* register without the comparison of the signature.
register_unchecked(cmds, command, func, context, kwargs) ==
    IF PatternRaises(command)
    THEN [raised |-> "InvalidCommand", commands |-> cmds]
    ELSE [raised   |-> "",
          commands |-> Append(cmds, Entry(Pattern(command, context), func, kwargs))]

\* _register(command, func, context, kwargs) on the registry cmds: what is
\* raised ("" when nothing is) and the registry it leaves.
register(cmds, command, func, context, kwargs) ==
    IF PatternRaises(command)
    THEN [raised |-> "InvalidCommand", commands |-> cmds]
    ELSE LET pattern == Pattern(command, context)
         IN  IF func.params # when_argnames(pattern, kwargs)
             THEN [raised |-> "InvalidCommand", commands |-> cmds]
             ELSE [raised   |-> "",
                   commands |-> Append(cmds, Entry(pattern, func, kwargs))]

\* insert_help with the two entries in the other order.
insert_help_swapped(cmds) == <<HelpEntry>> \o (<<QmarkEntry>> \o cmds)

\* The registry after start(help=True) has inserted the help entries.
insert_help(cmds) == <<QmarkEntry>> \o (<<HelpEntry>> \o cmds)

\* A call of a handler or of no_command_matches.
Call(func, positional, keywords) ==
    [func |-> func, positional |-> positional, keywords |-> keywords]

RECURSIVE handle_from(_, _, _)
\* handle_from without the break: the entries after a match are tried too.
handle_from_no_break(cmd, ws, i) ==
    IF i > Len(commands)
    THEN [calls |-> <<Call("no_command_matches", <<cmd>>, EmptyDict)>>, match_calls |-> 0,
          raised |-> ""]
    ELSE LET matches == match(commands[i].pattern, ws)
             later   == handle_from(cmd, ws, i + 1)
         IN  IF matches.raised # ""
             THEN [calls |-> <<>>, match_calls |-> 1, raised |-> matches.raised]
             ELSE IF ~matches.is_none
             THEN [calls |-> <<Call(commands[i].func.name, <<>>,
                                    DictUpdate(commands[i].kwargs, matches.groups))>>
                             \o later.calls,
                   match_calls |-> later.match_calls + 1,
                   raised |-> later.raised]
             ELSE [calls |-> later.calls, match_calls |-> later.match_calls + 1,
                   raised |-> later.raised]

\* The loop of _handle_command(cmd) from entry i of commands on: the calls it
\* makes, the number of pattern.match calls it makes and the exception that
\* leaves it ("" when none does).
handle_from(cmd, ws, i) ==
    IF i > Len(commands)
    THEN [calls |-> <<Call("no_command_matches", <<cmd>>, EmptyDict)>>, match_calls |-> 0,
          raised |-> ""]
    ELSE LET matches == match(commands[i].pattern, ws)
         IN  IF matches.raised # ""
             THEN [calls |-> <<>>, match_calls |-> 1, raised |-> matches.raised]
             ELSE IF ~matches.is_none
             THEN [calls |-> <<Call(commands[i].func.name, <<>>,
                                    DictUpdate(commands[i].kwargs, matches.groups))>>,
                   match_calls |-> 1,
                   raised |-> ""]
             ELSE LET later == handle_from(cmd, ws, i + 1)
                  IN  [calls |-> later.calls, match_calls |-> later.match_calls + 1,
                       raised |-> later.raised]

\* _handle_command(cmd)
handle_command(cmd) == handle_from(cmd, split(lower(cmd)), 1)

\* loop_iteration without the strip and without the test for an empty command.
loop_iteration_unstripped(line) == handle_command(line)

\* One iteration of the loop of start() on the line typed: the calls made,
\* the number of pattern.match calls and the exception that leaves the loop.
\* An empty command is skipped.
loop_iteration(line) ==
    LET cmd == strip(line)
    IN  IF cmd = <<>>
        THEN [calls |-> <<>>, match_calls |-> 0, raised |-> ""]
        ELSE handle_command(cmd)

(***************************************************************************)
(* Spec: the program, from import to the interpreter loop                  *)
(***************************************************************************)

MaxUser == 2

MaxHelpStarts == 2

MaxNesting == 2

\* The state after `import adventurelib`.
Init ==
    /\ current_context = S_default
    /\ commands = <<QuitEntry>>
    /\ pc = "setup"
    /\ depth = 0
    /\ starts = 0
    /\ registered = <<>>
    /\ ctx_arg = None
    /\ ret = NoCall
    /\ pat = NoPattern
    /\ wc_have = 0
    /\ wc_placeholders = 1
    /\ wc_out = <<>>
    /\ wc_done = FALSE

\* _register(command, func, context, kwargs), from the game's module or from
\* a handler.
Register(command, func, context, kwargs) ==
    /\ pc # "exited"
    /\ Len(registered) < MaxUser
    /\ \E r \in {register(commands, command, func, context, kwargs)} :
           /\ commands' = r.commands
           /\ registered' = IF r.raised = ""
                            THEN Append(registered, r.commands[Len(r.commands)])
                            ELSE registered
           /\ ret' = [op |-> "_register", command |-> command, func |-> func,
                      context |-> context, kwargs |-> kwargs, raised |-> r.raised]
    /\ UNCHANGED <<current_context, pc, depth, starts, ctx_arg, pat,
                   wc_have, wc_placeholders, wc_out, wc_done>>

\* start(help), from the game's module or from a handler called by the loop
\* of a start() that is running: the help entries are inserted when asked
\* for, and the loop of this call is entered.
Start(help) ==
    /\ pc # "exited"
    /\ depth < MaxNesting
    /\ help => starts < MaxHelpStarts
    /\ commands' = IF help THEN insert_help(commands) ELSE commands
    /\ starts' = IF help THEN starts + 1 ELSE starts
    /\ pc' = "loop"
    /\ depth' = depth + 1
    /\ ret' = [op |-> "start", help |-> help]
    /\ UNCHANGED <<current_context, registered, ctx_arg, pat,
                   wc_have, wc_placeholders, wc_out, wc_done>>

\* One iteration of the loop: a line is read and handled.  The quit handler
\* (sys.exit) ends the process, and so does an exception that leaves the loop.
ReadLine(line) ==
    /\ pc = "loop"
    /\ \E r \in {loop_iteration(line)} :
           /\ ret' = [op |-> "input", line |-> line, calls |-> r.calls,
                      match_calls |-> r.match_calls, raised |-> r.raised]
           /\ \E exits \in {\/ r.raised # ""
                            \/ \E i \in 1..Len(r.calls) : r.calls[i].func = F_exit.name} :
                  /\ pc' = IF exits THEN "exited" ELSE "loop"
                  /\ depth' = IF exits THEN 0 ELSE depth
    /\ UNCHANGED <<current_context, commands, starts, registered, ctx_arg, pat,
                   wc_have, wc_placeholders, wc_out, wc_done>>

\* input() raises EOFError: the loop ends and start() returns, to the game's
\* module or to the handler that called it from the loop of another start().
EndOfInput ==
    /\ pc = "loop"
    /\ pc' = IF depth = 1 THEN "setup" ELSE "loop"
    /\ depth' = depth - 1
    /\ ret' = [op |-> "eof"]
    /\ UNCHANGED <<current_context, commands, starts, registered, ctx_arg, pat,
                   wc_have, wc_placeholders, wc_out, wc_done>>

\* A dict with one key.
Dict1(k, v) == [x \in {k} |-> v]

\* The registrations of Spec: <<command, func, context, kwargs>>.
RegisterCalls ==
    { <<S_look, F_look, S_default, EmptyDict>>,
      <<S_take_item, F_take, S_default, Dict1(S_item, S_sword)>>,
      <<S_take_item_item, F_take, S_default, EmptyDict>>,
      <<S_take_item, F_strike, S_shop, Dict1(S_weapon, S_sword)>>,
      <<S_take_item, F_attack, S_default, EmptyDict>>,
      <<S_quit, F_exit, S_default, EmptyDict>> }

\* The lines typed.
Lines ==
    { <<>>,
      <<" ", "\t", "\r">>,
      S_look,
      <<" ","T","a","k","e","\f"," ","É"," ","b","\r">>,
      <<"N","o","p","e"," ">>,
      <<"t","a","k","e">>,
      S_quit,
      <<"?">> }

Next ==
    \/ \E c \in RegisterCalls : Register(c[1], c[2], c[3], c[4])
    \/ \E c \in {S_default, S_shop} : SetContext(c)
    \/ \E help \in BOOLEAN : Start(help)
    \/ \E line \in Lines : ReadLine(line)
    \/ EndOfInput

Spec == Init /\ [][Next]_vars

\* Whether a line holds nothing but whitespace.
Blank(line) == \A i \in 1..Len(line) : line[i] \in Whitespace

\* The tokens of a line: lowercased, split on whitespace.
TokensOf(line) == split(lower(line))

\* The entries of commands whose pattern matches the tokens of the line.
MatchingEntries(line) ==
    {i \in 1..Len(commands) : ~match(commands[i].pattern, TokensOf(line)).is_none}

\* Whether s is line without its leading and trailing whitespace.
Stripped(line, s) ==
    \E a, b \in 1..Len(line) :
        /\ a <= b
        /\ s = SubSeq(line, a, b)
        /\ line[a] \notin Whitespace
        /\ line[b] \notin Whitespace
        /\ \A i \in 1..Len(line) : (i < a \/ i > b) => line[i] \in Whitespace

\* C5: when some entry matches the tokens of the line read, exactly one call
\* is made: the handler of the matching entry of lowest index, with the
\* entry's fixed keywords merged with the captured arguments (a capture wins
\* over a fixed keyword of the same name); no entry after it is tried and
\* no_command_matches is not called.
C5_FirstMatchWins ==
    (ret.op = "input" /\ MatchingEntries(ret.line) # {}) =>
        LET first  == CHOOSE i \in MatchingEntries(ret.line) :
                          \A j \in MatchingEntries(ret.line) : i <= j
            groups == match(commands[first].pattern, TokensOf(ret.line)).groups
            kwargs == commands[first].kwargs
        IN  /\ Len(ret.calls) = 1
            /\ ret.calls[1].func = commands[first].func.name
            /\ ret.calls[1].func # "no_command_matches"
            /\ ret.calls[1].positional = <<>>
            /\ DOMAIN ret.calls[1].keywords = (DOMAIN kwargs) \cup (DOMAIN groups)
            /\ \A k \in DOMAIN groups : ret.calls[1].keywords[k] = groups[k]
            /\ \A k \in (DOMAIN kwargs) \ (DOMAIN groups) :
                  ret.calls[1].keywords[k] = kwargs[k]
            /\ ret.match_calls = first

\* A line matched by two entries has been handled by the first of them, the
\* fourth entry of the registry, with the words captured.
C5_Witness ==
    /\ ret.op = "input"
    /\ Cardinality(MatchingEntries(ret.line)) = 2
    /\ ret.match_calls = 4
    /\ Len(ret.calls) = 1
    /\ ret.calls[1].func = "take"
    /\ ret.calls[1].keywords = Dict1(S_item, <<"é"," ","b">>)

\* C6: the argument names of every pattern in the registry are pairwise
\* different.
C6_UniqueArgNames ==
    \A i \in 1..Len(commands) : DistinctNames(commands[i].pattern)

\* C7: once start(help=True) has inserted the help entries, the registry
\* begins with the '?' entry and then the 'help' entry, only help entries
\* come before the quit entry, and the entries after the quit entry are the
\* registered entries in registration order.
C7_HelpFirst ==
    starts > 0 =>
        /\ Len(commands) >= 3
        /\ commands[1] = QmarkEntry
        /\ commands[2] = HelpEntry
        /\ \E q \in 3..Len(commands) :
              /\ commands[q] = QuitEntry
              /\ \A j \in 1..(q - 1) : commands[j] \in {QmarkEntry, HelpEntry}
              /\ SubSeq(commands, q + 1, Len(commands)) = registered
        /\ \A i \in 1..Len(registered) : registered[i] \notin {QmarkEntry, HelpEntry, QuitEntry}

\* A handler has been registered after start(help=True) ran, another having
\* been registered: both follow the quit entry.
C7_Witness ==
    /\ starts = 1
    /\ pc = "loop"
    /\ ret.op = "_register"
    /\ ret.raised = ""
    /\ Len(registered) = 2
    /\ Len(commands) = 5

\* The case C9 is about: a line has been read that is blank, or that no
\* entry matches.
C9_Case ==
    /\ ret.op = "input"
    /\ Blank(ret.line) \/ MatchingEntries(ret.line) = {}

\* C9 as claimed: a blank line makes no call and no pattern match, a
\* non-blank line that no entry matches makes exactly one call,
\* no_command_matches with the line as typed, and the loop goes on.
C9_Original ==
    C9_Case =>
        /\ pc = "loop"
        /\ IF Blank(ret.line)
           THEN ret.calls = <<>> /\ ret.match_calls = 0
           ELSE /\ Len(ret.calls) = 1
                /\ ret.calls[1].func = "no_command_matches"
                /\ ret.calls[1].positional = <<ret.line>>

\* C9 as amended: as claimed, except that no_command_matches is called with
\* the line as typed less its leading and trailing whitespace (its case
\* kept).
C9_UnmatchedOnce ==
    C9_Case =>
        /\ pc = "loop"
        /\ IF Blank(ret.line)
           THEN ret.calls = <<>> /\ ret.match_calls = 0
           ELSE /\ Len(ret.calls) = 1
                /\ ret.calls[1].func = "no_command_matches"
                /\ Len(ret.calls[1].positional) = 1
                /\ Stripped(ret.line, ret.calls[1].positional[1])
                /\ ret.calls[1].keywords = EmptyDict
                /\ ret.match_calls = Len(commands)

\* no_command_matches has been called once for a line typed with a capital
\* and a trailing space that none of four entries matches.
C9_Witness ==
    /\ C9_Case
    /\ ~Blank(ret.line)
    /\ ret.line # strip(ret.line)
    /\ lower(ret.line) # ret.line
    /\ Len(commands) = 4
    /\ Len(ret.calls) = 1
    /\ ret.calls[1].func = "no_command_matches"

(***************************************************************************)
(* SpecRegister: _register calls on the registry of a fresh import         *)
(***************************************************************************)

\* The arguments _register is called with.
RegisterTemplates == {S_cafe, S_take_item, S_take_item_item, S_take_mixed, S_take_digit}

RegisterFuncs == {F_look, F_take, F_attack, F_strike}

RegisterContexts == {S_default, S_shop}

RegisterKwargs == {EmptyDict, Dict1(S_weapon, S_sword)}

NextRegister ==
    \E command \in RegisterTemplates, func \in RegisterFuncs,
       context \in RegisterContexts, kwargs \in RegisterKwargs :
        Register(command, func, context, kwargs)

SpecRegister == Init /\ [][NextRegister]_vars

\* Whether every character of w is in S.
AllIn(w, S) == \A i \in 1..Len(w) : w[i] \in S

\* Whether a template of these words compiles: each word is made of
\* lowercase letters only or of uppercase letters only.
Compiles(words) ==
    \A i \in 1..Len(words) : AllIn(words[i], LowerLetters) \/ AllIn(words[i], UpperLetters)

\* The argument names of a template of these words: its uppercase words,
\* lowercased.
ArgNameSet(words) ==
    {lower(words[i]) : i \in {j \in 1..Len(words) : AllIn(words[j], UpperLetters)}}

\* Whether _register is to succeed: the template compiles and the function's
\* parameter names are the argument names and the keys of kwargs.
RegisterOk(words, func, kwargs) ==
    /\ Compiles(words)
    /\ func.params = ArgNameSet(words) \cup DOMAIN kwargs

\* C4: _register succeeds iff the template compiles and the set of the
\* function's parameter names equals the union of the pattern's argument
\* names and the keys of kwargs; on success exactly one entry (pattern, func,
\* kwargs) is appended at the end of the registry, the entries before it
\* unchanged; on failure InvalidCommand is raised and the registry is left as
\* it was.
C4_Register ==
    [][ret'.op = "_register" =>
          IF RegisterOk(split(ret'.command), ret'.func, ret'.kwargs)
          THEN /\ ret'.raised = ""
               /\ Len(commands') = Len(commands) + 1
               /\ SubSeq(commands', 1, Len(commands)) = commands
               /\ commands'[Len(commands')].func = ret'.func
               /\ commands'[Len(commands')].kwargs = ret'.kwargs
               /\ commands'[Len(commands')].pattern.orig_pattern = ret'.command
               /\ commands'[Len(commands')].pattern.pattern_context = ret'.context
               /\ commands'[Len(commands')].pattern = Pattern(ret'.command, ret'.context)
          ELSE /\ ret'.raised = "InvalidCommand"
               /\ commands' = commands
    ]_vars

\* _register has raised InvalidCommand for a handler with parameter 'weapon'
\* and the template 'take ITEM', after a registration with a fixed keyword
\* succeeded.
C4_Witness ==
    /\ ret.op = "_register"
    /\ ret.raised = "InvalidCommand"
    /\ ret.command = S_take_item
    /\ ret.func = F_attack
    /\ ret.kwargs = EmptyDict
    /\ Len(commands) = 2
    /\ commands[2].func = F_strike
    /\ commands[2].kwargs = Dict1(S_weapon, S_sword)

====
